---- MODULE Spec2Model ----
(***************************************************************************)
(* PhotoVerifierSolidity (contracts/solidity/PhotoVerifierSolidity.sol):   *)
(* the attestation ledger and its keccak commitment, as a state machine.   *)
(*                                                                         *)
(* uint256 values are drawn from small sets.  The counters are unbounded   *)
(* naturals capped by MaxCalls: the checked ++ of Solidity 0.8 reverts     *)
(* only at 2^256 - 1, which no run reaches.  keccak256 is an unknown but   *)
(* fixed function: Init chooses it among all functions of the reduced      *)
(* width and no action changes it.  abi.encodePacked of two 32-byte words  *)
(* is their concatenation, which is the pair.  block.timestamp is a        *)
(* uint256 the chain supplies: any value from 0 on, never decreasing from  *)
(* one block to the next.  Transactions execute one at a time, so each     *)
(* verifyPhoto is one step.  The view functions read storage only and are  *)
(* operators on the state.  lastTx, lastWrite, writeCount and callsBy are  *)
(* history variables: they record the calls made and no code reads them.   *)
(*                                                                         *)
(* frontend/src/utils/eas.ts is the second machine: an async function over *)
(* window.ethereum and localStorage, one step per stretch of code between  *)
(* two awaits.  SpecEAS runs it alone; Spec and SpecViews leave it idle.   *)
(***************************************************************************)
EXTENDS Integers, FiniteSets, Sequences, TLC

\* ---------------------------------------------------------------- bounds
MaxCalls == 3                 \* verifyPhoto transactions in one run
MaxTime == 2                  \* largest block.timestamp
MaxAttest == 3                \* createSimpleAttestation calls in one run

\* ------------------------------------------------------------ value sets
Address == {"deployer", "alice"}      \* msg.sender values
ZeroAddress == "0x0"                  \* address(0), the default of a mapping
PhotoHash == {1, 2}                   \* uint256 photoHash arguments
Secret == {1, 2}                      \* uint256 secret arguments
Commitment == {0, 1}                  \* uint256 zkCommitment values (0 is the default)
Timestamp == 0..MaxTime               \* uint256 block.timestamp values

\* bytes memory data = abi.encodePacked(photoHash, secret)
encodePacked(photoHash, secret) == <<photoHash, secret>>

Packed == {encodePacked(p, s) : p \in PhotoHash, s \in Secret}

VARIABLES
    attestations,      \* mapping(uint256 => PhotoAttestation)
    ownerPhotoCount,   \* mapping(address => uint256)
    owner,             \* address public owner
    photoCount,        \* uint256 public photoCount
    blockTimestamp,    \* block.timestamp of the block being executed
    keccak256,         \* the hash function, fixed for the whole run
    lastTx,            \* history: the last verifyPhoto transaction and its return value
    lastWrite,         \* history: per photoHash, the arguments of the last verifyPhoto on it
    writeCount,        \* history: per photoHash, the number of verifyPhoto calls on it
    callsBy,           \* history: per address, the number of verifyPhoto calls it sent
    lastCall,          \* history: the last external call (its function) and what it returned
    ethereum,          \* window.ethereum is present
    localStorage,      \* window.localStorage: key -> stored string
    pc,                \* the await createSimpleAttestation is suspended at, or "idle"
    call,              \* the argument and the locals of the createSimpleAttestation call
    result,            \* the promise the last createSimpleAttestation call returned
    txCount,           \* transactions the wallet sent for eth_sendTransaction
    attestCalls,       \* history: the number of createSimpleAttestation calls made
    schemaRan,         \* history: getOrRegisterSchemaUID has returned at least once
    lastSchemaOp       \* history: which of getOrRegisterSchemaUID / setSchemaUID ran last

vars == <<attestations, ownerPhotoCount, owner, photoCount, blockTimestamp,
          keccak256, lastTx, lastWrite, writeCount, callsBy, lastCall,
          ethereum, localStorage, pc, call, result, txCount, attestCalls,
          schemaRan, lastSchemaOp>>

ledger == <<attestations, ownerPhotoCount, owner, photoCount>>

\* everything on the chain side, and everything in the browser
contract == <<ledger, blockTimestamp, keccak256, lastTx, lastWrite, writeCount,
              callsBy, lastCall>>
browser == <<ethereum, localStorage, pc, call, result, txCount, attestCalls,
             schemaRan, lastSchemaOp>>

\* The default (all-zero) value a mapping returns for a key never written.
ZeroAttestation == [verifiedAt |-> 0, owner |-> ZeroAddress, zkCommitment |-> 0]

NoTx == [op |-> "none", sender |-> ZeroAddress, photoHash |-> 0,
         zkCommitment |-> 0, timestamp |-> 0, ret |-> 0]

NoWrite == [sender |-> ZeroAddress, zkCommitment |-> 0, timestamp |-> 0]

RECURSIVE SumOver(_, _)
SumOver(f, S) ==
    IF S = {} THEN 0
    ELSE LET x == CHOOSE y \in S : TRUE IN f[x] + SumOver(f, S \ {x})

\* number of verifyPhoto transactions executed so far
nCalls == SumOver(callsBy, Address)

\* ------------------------------------------------------------ view functions

getAttestation(photoHash) ==
    LET att == attestations[photoHash]
    IN  <<att.verifiedAt, att.owner, att.zkCommitment>>

\* mutant: the secret is packed first
computeCommitment_SecretFirst(photoHash, secret) ==
    LET data == encodePacked(secret, photoHash)
    IN  keccak256[data]

computeCommitment(photoHash, secret) ==
    LET data == encodePacked(photoHash, secret)
    IN  keccak256[data]

\* mutant: the two words are packed in the other order
verifyZkProof_SwappedEncoding(photoHash, secret) ==
    LET att == attestations[photoHash]
        computed == keccak256[encodePacked(secret, photoHash)]
    IN  computed = att.zkCommitment

verifyZkProof(photoHash, secret) ==
    LET att == attestations[photoHash]
        computed == computeCommitment(photoHash, secret)
    IN  computed = att.zkCommitment

\* the comparison of verifyZkProof: recompute and compare for equality
verifyCommitment(photoHash, secret, expected) ==
    LET computed == computeCommitment(photoHash, secret)
    IN  computed = expected

isVerified(photoHash) == attestations[photoHash].verifiedAt > 0

getOwnerOf(photoHash) == attestations[photoHash].owner

getOwnerPhotoCount(_owner) == ownerPhotoCount[_owner]

getPhotoCount == photoCount

\* ------------------------------------------------------------ eas.ts: values
\* Strings the code takes apart (hashes, storage keys) are sequences of
\* characters; '' is the empty sequence.  A JavaScript object is a record and
\* the null object is JSNull; a missing property reads as Undefined.

JSNull == [null |-> TRUE]
isNull(value) == "null" \in DOMAIN value
Undefined == "undefined"
NoItem == "null"                      \* what localStorage.getItem returns for a missing key

\* const SCHEMA_UID_KEY = 'arbipic_eas_schema_uid'
SCHEMA_UID_KEY == <<"arbipic_eas_schema_uid">>

\* `eas_attestation_${cleanHash}`
attestationKey(cleanHash) == <<"eas_attestation_">> \o cleanHash

\* photoHash arguments: two hashes, each with and without the '0x' prefix
\* (hashes are full width here, so padEnd(64, '0') adds nothing)
PhotoHashString == {<<"0", "x", "a", "b">>, <<"a", "b">>,
                    <<"0", "x", "c", "0">>, <<"c", "0">>}

\* str.startsWith('0x')
startsWith0x(str) == Len(str) >= 2 /\ str[1] = "0" /\ str[2] = "x"

\* str.replace('0x', ''): the first occurrence of '0x' is removed, wherever it is
replace0x(str) ==
    LET at == {i \in 1..(Len(str) - 1) : str[i] = "0" /\ str[i + 1] = "x"}
    IN  IF at = {} THEN str
        ELSE LET i == CHOOSE j \in at : \A k \in at : j <= k
             IN  SubSeq(str, 1, i - 1) \o SubSeq(str, i + 2, Len(str))

\* photoHash.startsWith('0x') ? photoHash : `0x${photoHash}`
formatBytes32(str) == IF startsWith0x(str) THEN str ELSE <<"0", "x">> \o str

\* const computedUID = keccak256(encoded): one fixed value, the arguments are constants
computedUID == "keccak256(abi.encode(schema, resolver, revocable))"

\* values a caller may hand to setSchemaUID
SchemaUID == {computedUID, "uid registered via explorer"}

\* UIDs the EAS contract may assign, and the hash of the n-th transaction the wallet sent
AttestationUID == {<<"uid", 1>>, <<"uid", 2>>}
TxHash(n) == <<"tx", n>>

\* keccak256(toUtf8Bytes('Attested(address,address,bytes32,bytes32)'))
attestedEventTopic == "Attested(address,address,bytes32,bytes32)"

\* logs of a receipt: topics[0] is the event, topics[2] the third topic
\* (JavaScript index i is index i + 1 here)
AttestedLog(uid) == [topics |-> <<attestedEventTopic, <<"recipient">>, uid>>]
OtherLog == [topics |-> <<"Transfer(address,address,uint256)", <<"from">>, <<"to">>>>]

\* what provider.waitForTransaction may resolve to: null, or a receipt whose
\* logs hold no Attested event (a reverted transaction has none), or one that does
Receipt ==
    {JSNull, [logs |-> <<>>], [logs |-> <<OtherLog>>]}
        \cup {[logs |-> <<AttestedLog(u)>>] : u \in AttestationUID}
        \cup {[logs |-> <<OtherLog, AttestedLog(u)>>] : u \in AttestationUID}

\* messages of the errors the awaited calls reject with ('' is an empty message)
ErrorMessage == {"user rejected the request", ""}

\* for (const log of receipt.logs) { if (log.topics[0] === attestedEventTopic) { ...; break } }
RECURSIVE firstAttestedUID(_)
firstAttestedUID(logs) ==
    IF logs = <<>> THEN <<>>
    ELSE IF Head(logs).topics[1] = attestedEventTopic THEN Head(logs).topics[3]
    ELSE firstAttestedUID(Tail(logs))

\* let attestationUID = ''; if (receipt && receipt.logs) { ... }
parseAttestedUID(receipt) ==
    IF isNull(receipt) THEN <<>> ELSE firstAttestedUID(receipt.logs)

\* if (!attestationUID) { attestationUID = txHash }
attestationUIDOf(receipt, txHash) ==
    IF parseAttestedUID(receipt) = <<>> THEN txHash ELSE parseAttestedUID(receipt)

getEASExplorerUrl(attestationUID) ==
    <<"https://arbitrum-sepolia.easscan.org/attestation/view/", attestationUID>>

\* the values createSimpleAttestation returns
Success(attestationUID) ==
    [success |-> TRUE, attestationId |-> attestationUID,
     explorerUrl |-> getEASExplorerUrl(attestationUID), error |-> Undefined]

Failure(message) ==
    [success |-> FALSE, attestationId |-> Undefined, explorerUrl |-> Undefined,
     error |-> message]

\* error.message || 'Failed to create attestation'
messageOf(message) == IF message = "" THEN "Failed to create attestation" ELSE message

\* the promise createSimpleAttestation returned
NoPromise == [state |-> "none", value |-> Failure(Undefined)]
Pending == [state |-> "pending", value |-> Failure(Undefined)]
Fulfilled(value) == [state |-> "fulfilled", value |-> value]

\* the locals of a createSimpleAttestation call before anything is assigned
NewCall(photoHash) ==
    [photoHash |-> photoHash, schemaUID |-> Undefined, txHash |-> <<>>, receipt |-> JSNull]

\* JSON.stringify and JSON.parse of an object of strings
JSONstringify(object) == [json |-> object]
JSONparse(text) == text.json

\* localStorage.getItem / setItem on a storage area ls
hasItem(ls, key) == key \in DOMAIN ls
setItem(ls, key, value) ==
    [k \in DOMAIN ls \cup {key} |-> IF k = key THEN value ELSE ls[k]]

\* mutant: the value is stored only when the key holds nothing yet
storeSchemaUID_OnlyIfAbsent(ls) ==
    IF ~hasItem(ls, SCHEMA_UID_KEY) THEN setItem(ls, SCHEMA_UID_KEY, computedUID) ELSE ls

\* const storedUID = localStorage.getItem(SCHEMA_UID_KEY)
\* if (storedUID !== computedUID) localStorage.setItem(SCHEMA_UID_KEY, computedUID)
storeSchemaUID(ls) ==
    IF ~hasItem(ls, SCHEMA_UID_KEY) \/ ls[SCHEMA_UID_KEY] # computedUID
    THEN setItem(ls, SCHEMA_UID_KEY, computedUID)
    ELSE ls

\* const attestationData = { uid, schemaUID, photoHash: formattedPhotoHash, ..., txHash }
attestationData(attestationUID, schemaUID, photoHash, txHash) ==
    [uid |-> attestationUID, schemaUID |-> schemaUID,
     photoHash |-> formatBytes32(photoHash), txHash |-> txHash]

\* mutant: the key keeps the hash as it was passed
cacheAttestation_KeepsPrefix(ls, photoHash, data) ==
    setItem(ls, attestationKey(photoHash), JSONstringify(data))

\* localStorage.setItem(`eas_attestation_${photoHash.replace('0x', '')}`, JSON.stringify(attestationData))
cacheAttestation(ls, photoHash, data) ==
    setItem(ls, attestationKey(replace0x(photoHash)), JSONstringify(data))

\* export function getLocalEASAttestation(photoHash): any | null
getLocalEASAttestation(photoHash) ==
    LET cleanHash == replace0x(photoHash)
    IN  IF hasItem(localStorage, attestationKey(cleanHash))
        THEN JSONparse(localStorage[attestationKey(cleanHash)])
        ELSE JSNull

\* export function getSchemaUID(): string | null
getSchemaUID ==
    IF hasItem(localStorage, SCHEMA_UID_KEY) THEN localStorage[SCHEMA_UID_KEY] ELSE NoItem

\* the page before anything ran: an empty localStorage, a wallet injected or not
pageLoad ==
    /\ ethereum \in BOOLEAN
    /\ localStorage = [k \in {} |-> NoItem]
    /\ pc = "idle"
    /\ call = NewCall(<<>>)
    /\ result = NoPromise
    /\ txCount = 0
    /\ attestCalls = 0
    /\ schemaRan = FALSE
    /\ lastSchemaOp = "none"

\* ------------------------------------------------------------ constructor

constructor ==
    /\ attestations = [p \in PhotoHash |-> ZeroAttestation]
    /\ ownerPhotoCount = [a \in Address |-> 0]
    /\ owner = "deployer"
    /\ photoCount = 0
    /\ blockTimestamp \in Timestamp
    /\ keccak256 \in [Packed -> Commitment]
    /\ lastTx = NoTx
    /\ lastWrite = [p \in PhotoHash |-> NoWrite]
    /\ writeCount = [p \in PhotoHash |-> 0]
    /\ callsBy = [a \in Address |-> 0]
    /\ lastCall = [fn |-> "constructor", ret |-> 0]

\* the deployed contract, and a page with a wallet that no one uses yet
Init ==
    /\ constructor
    /\ pageLoad
    /\ ethereum

\* ------------------------------------------------------------ transactions

\* PhotoAttestation({verifiedAt: timestamp, owner: msg.sender, zkCommitment: zkCommitment})
PhotoAttestation(timestamp, sender, zkCommitment) ==
    [verifiedAt |-> timestamp, owner |-> sender, zkCommitment |-> zkCommitment]

\* mutant: the owner of an existing record is kept ("only the first owner owns")
storeAttestation_KeepsFirstOwner(sender, photoHash, zkCommitment) ==
    attestations' = [attestations EXCEPT ![photoHash] =
        PhotoAttestation(blockTimestamp,
                         IF attestations[photoHash].owner = ZeroAddress
                         THEN sender ELSE attestations[photoHash].owner,
                         zkCommitment)]

\* mutant: a second verifyPhoto on a photo deletes its attestation
storeAttestation_RevokesOnRewrite(sender, photoHash, zkCommitment) ==
    attestations' = [attestations EXCEPT ![photoHash] =
        IF attestations[photoHash].verifiedAt > 0
        THEN ZeroAttestation
        ELSE PhotoAttestation(blockTimestamp, sender, zkCommitment)]

\* mutant: verifiedAt of an existing record is kept (first verification time)
storeAttestation_KeepsFirstTimestamp(sender, photoHash, zkCommitment) ==
    attestations' = [attestations EXCEPT ![photoHash] =
        PhotoAttestation(IF attestations[photoHash].owner = ZeroAddress
                         THEN blockTimestamp ELSE attestations[photoHash].verifiedAt,
                         sender, zkCommitment)]

\* mutant: the key is ignored, every slot gets the new record
storeAttestation_IgnoresKey(sender, photoHash, zkCommitment) ==
    attestations' = [p \in PhotoHash |-> PhotoAttestation(blockTimestamp, sender, zkCommitment)]

\* mutant: verifiedAt is taken from the caller's argument
storeAttestation_TimestampFromArgument(sender, photoHash, zkCommitment) ==
    attestations' = [attestations EXCEPT
                        ![photoHash] = PhotoAttestation(zkCommitment, sender, zkCommitment)]

\* attestations[photoHash] = PhotoAttestation({...})
storeAttestation(sender, photoHash, zkCommitment) ==
    LET timestamp == blockTimestamp IN
    attestations' = [attestations EXCEPT
                        ![photoHash] = PhotoAttestation(timestamp, sender, zkCommitment)]

\* mutant: = 1 in place of ++
trackOwnerPhotoCount_SetsOne(sender) ==
    ownerPhotoCount' = [ownerPhotoCount EXCEPT ![sender] = 1]

\* mutant: the contract owner's count is incremented, not msg.sender's
trackOwnerPhotoCount_ContractOwner(sender) ==
    ownerPhotoCount' = [ownerPhotoCount EXCEPT ![owner] = @ + 1]

\* ownerPhotoCount[msg.sender]++
trackOwnerPhotoCount(sender) ==
    ownerPhotoCount' = [ownerPhotoCount EXCEPT ![sender] = @ + 1]

\* mutant: the total counts the attested photos, not the writes
incrementPhotoCount_DistinctOnly ==
    photoCount' = Cardinality({p \in PhotoHash : attestations'[p].owner # ZeroAddress})

\* photoCount++
incrementPhotoCount == photoCount' = photoCount + 1

\* history of the transaction: its arguments, block.timestamp and return value
recordHistory(sender, photoHash, zkCommitment, returned) ==
    /\ lastTx' = [op |-> "verifyPhoto", sender |-> sender, photoHash |-> photoHash,
                  zkCommitment |-> zkCommitment, timestamp |-> blockTimestamp,
                  ret |-> returned]
    /\ lastWrite' = [lastWrite EXCEPT ![photoHash] =
                        [sender |-> sender, zkCommitment |-> zkCommitment,
                         timestamp |-> blockTimestamp]]
    /\ writeCount' = [writeCount EXCEPT ![photoHash] = @ + 1]
    /\ callsBy' = [callsBy EXCEPT ![sender] = @ + 1]
    /\ lastCall' = [fn |-> "verifyPhoto", ret |-> returned]

\* mutant: the write also assigns the contract owner (owner = msg.sender)
verifyPhotoBody_TakesOwnership(sender, photoHash, zkCommitment) ==
    /\ storeAttestation(sender, photoHash, zkCommitment)
    /\ trackOwnerPhotoCount(sender)
    /\ incrementPhotoCount
    /\ recordHistory(sender, photoHash, zkCommitment, blockTimestamp)
    /\ owner' = sender
    /\ UNCHANGED <<blockTimestamp, keccak256, browser>>

\* the body of verifyPhoto: store, count, count, return timestamp
verifyPhotoBody(sender, photoHash, zkCommitment) ==
    LET timestamp == blockTimestamp IN
    /\ storeAttestation(sender, photoHash, zkCommitment)
    /\ trackOwnerPhotoCount(sender)
    /\ incrementPhotoCount
    /\ recordHistory(sender, photoHash, zkCommitment, timestamp)
    /\ UNCHANGED <<owner, blockTimestamp, keccak256, browser>>

\* mutant: only the current owner of a record (or anyone, for a new one) may write it
verifyPhoto_OnlyOwner(sender, photoHash, zkCommitment) ==
    /\ nCalls < MaxCalls
    /\ attestations[photoHash].owner \in {ZeroAddress, sender}
    /\ verifyPhotoBody(sender, photoHash, zkCommitment)

\* function verifyPhoto(uint256 photoHash, uint256 zkCommitment) external returns (uint256)
\* called by msg.sender = sender; no require, no modifier.
verifyPhoto(sender, photoHash, zkCommitment) ==
    /\ nCalls < MaxCalls
    /\ verifyPhotoBody(sender, photoHash, zkCommitment)

\* A later block: block.timestamp never decreases along the chain.
Mine ==
    /\ \E t \in Timestamp : t > blockTimestamp /\ blockTimestamp' = t
    /\ UNCHANGED <<ledger, keccak256, lastTx, lastWrite, writeCount, callsBy, lastCall,
                   browser>>

\* A call of a view or pure function fn that returns ret: nothing is written.
staticcall(fn, ret) ==
    /\ lastCall' = [fn |-> fn, ret |-> ret]
    /\ UNCHANGED <<ledger, blockTimestamp, keccak256, lastTx, lastWrite, writeCount, callsBy,
                   browser>>

\* mutant: the lookup writes the caller into the record it reads
getAttestationCall_WritesRecord(sender, photoHash) ==
    /\ lastCall' = [fn |-> "getAttestation", ret |-> getAttestation(photoHash)]
    /\ attestations' = [attestations EXCEPT ![photoHash].owner = sender]
    /\ UNCHANGED <<ownerPhotoCount, owner, photoCount, blockTimestamp, keccak256,
                   lastTx, lastWrite, writeCount, callsBy, browser>>

getAttestationCall(sender, photoHash) ==
    staticcall("getAttestation", getAttestation(photoHash))

verifyZkProofCall(sender, photoHash, secret) ==
    staticcall("verifyZkProof", verifyZkProof(photoHash, secret))

computeCommitmentCall(sender, photoHash, secret) ==
    staticcall("computeCommitment", computeCommitment(photoHash, secret))

isVerifiedCall(sender, photoHash) ==
    staticcall("isVerified", isVerified(photoHash))

getOwnerOfCall(sender, photoHash) ==
    staticcall("getOwnerOf", getOwnerOf(photoHash))

getOwnerPhotoCountCall(sender, _owner) ==
    staticcall("getOwnerPhotoCount", getOwnerPhotoCount(_owner))

getPhotoCountCall(sender) ==
    staticcall("getPhotoCount", getPhotoCount)

\* the view and pure functions of the contract
ViewFunctions == {"getAttestation", "verifyZkProof", "computeCommitment", "isVerified",
                  "getOwnerOf", "getOwnerPhotoCount", "getPhotoCount"}

ViewCall ==
    \E sender \in Address :
        \/ \E photoHash \in PhotoHash : getAttestationCall(sender, photoHash)
        \/ \E photoHash \in PhotoHash, secret \in Secret :
               verifyZkProofCall(sender, photoHash, secret)
        \/ \E photoHash \in PhotoHash, secret \in Secret :
               computeCommitmentCall(sender, photoHash, secret)
        \/ \E photoHash \in PhotoHash : isVerifiedCall(sender, photoHash)
        \/ \E photoHash \in PhotoHash : getOwnerOfCall(sender, photoHash)
        \/ \E _owner \in Address : getOwnerPhotoCountCall(sender, _owner)
        \/ getPhotoCountCall(sender)

\* ------------------------------------------------------------ eas.ts: calls
\* createSimpleAttestation is an async function: it runs from one await to the
\* next in one step, and pc names the await it is suspended at.  The UI awaits
\* one call before it starts another; setSchemaUID may run between any two steps.

\* catch (error) { return { success: false, error: error.message || '...' } }
catch(message) ==
    /\ result' = Fulfilled(Failure(messageOf(message)))
    /\ pc' = "idle"

\* export async function createSimpleAttestation(photoHash, ...), up to its first await
createSimpleAttestation(photoHash) ==
    /\ pc = "idle"
    /\ attestCalls < MaxAttest
    /\ attestCalls' = attestCalls + 1
    /\ call' = NewCall(photoHash)
    /\ IF ~ethereum
       THEN /\ result' = Fulfilled(Failure("MetaMask not found"))
            /\ pc' = "idle"
       ELSE /\ result' = Pending
            /\ pc' = "getSigner"
    /\ UNCHANGED <<ethereum, localStorage, txCount, schemaRan, lastSchemaOp, contract>>

\* const signer = await provider.getSigner()
getSignerResolved ==
    /\ pc = "getSigner"
    /\ pc' = "getAddress"
    /\ UNCHANGED <<ethereum, localStorage, call, result, txCount, attestCalls,
                   schemaRan, lastSchemaOp, contract>>

\* const signerAddress = await signer.getAddress(); then getOrRegisterSchemaUID
\* runs up to await schemaRegistry.register(...)
getOrRegisterSchemaUID ==
    /\ pc = "getAddress"
    /\ localStorage' = storeSchemaUID(localStorage)
    /\ lastSchemaOp' = "getOrRegisterSchemaUID"
    /\ pc' = "register"
    /\ UNCHANGED <<ethereum, call, result, txCount, attestCalls, schemaRan, contract>>

\* const transaction = await schemaRegistry.register(...) resolved
registerResolved ==
    /\ pc = "register"
    /\ pc' = "transaction.wait"
    /\ UNCHANGED <<ethereum, localStorage, call, result, txCount, attestCalls,
                   schemaRan, lastSchemaOp, contract>>

\* The registration settled: await transaction.wait() resolved, or either await
\* threw and the catch swallowed it.  getOrRegisterSchemaUID returns computedUID;
\* createSimpleAttestation formats and encodes (schemaEncoder.encodeData and
\* encodeFunctionData throw on a malformed argument) and awaits eth_gasPrice.
registrationSettled(thrown) ==
    /\ pc \in {"register", "transaction.wait"}
    /\ ~thrown => pc = "transaction.wait"
    /\ schemaRan' = TRUE
    /\ call' = [call EXCEPT !.schemaUID = computedUID]
    /\ \/ /\ pc' = "eth_gasPrice"
          /\ result' = result
       \/ \E message \in ErrorMessage : catch(message)
    /\ UNCHANGED <<ethereum, localStorage, txCount, attestCalls, lastSchemaOp, contract>>

\* const gasPrice = await ethereum.request({ method: 'eth_gasPrice' }) resolved;
\* the eth_sendTransaction request goes to the wallet
gasPriceResolved ==
    /\ pc = "eth_gasPrice"
    /\ pc' = "eth_sendTransaction"
    /\ UNCHANGED <<ethereum, localStorage, call, result, txCount, attestCalls,
                   schemaRan, lastSchemaOp, contract>>

\* mutant: the entry is written when the transaction is sent, before its receipt
sendTransactionResolved_CachesEarly ==
    /\ pc = "eth_sendTransaction"
    /\ txCount' = txCount + 1
    /\ call' = [call EXCEPT !.txHash = TxHash(txCount + 1)]
    /\ pc' = "waitForTransaction"
    /\ localStorage' = cacheAttestation(localStorage, call.photoHash,
                           attestationData(TxHash(txCount + 1), call.schemaUID,
                                           call.photoHash, TxHash(txCount + 1)))
    /\ UNCHANGED <<ethereum, result, attestCalls, schemaRan, lastSchemaOp, contract>>

\* const txHash = await ethereum.request({ method: 'eth_sendTransaction', ... }) resolved:
\* the wallet sent the transaction
sendTransactionResolved ==
    /\ pc = "eth_sendTransaction"
    /\ txCount' = txCount + 1
    /\ call' = [call EXCEPT !.txHash = TxHash(txCount + 1)]
    /\ pc' = "waitForTransaction"
    /\ UNCHANGED <<ethereum, localStorage, result, attestCalls, schemaRan,
                   lastSchemaOp, contract>>

\* const receipt = await provider.waitForTransaction(txHash) resolved: parse the
\* UID, fall back to the hash, store the entry, return success
waitForTransactionResolved(receipt) ==
    LET attestationUID == attestationUIDOf(receipt, call.txHash) IN
    /\ pc = "waitForTransaction"
    /\ call' = [call EXCEPT !.receipt = receipt]
    /\ localStorage' = cacheAttestation(localStorage, call.photoHash,
                           attestationData(attestationUID, call.schemaUID,
                                           call.photoHash, call.txHash))
    /\ result' = Fulfilled(Success(attestationUID))
    /\ pc' = "idle"
    /\ UNCHANGED <<ethereum, txCount, attestCalls, schemaRan, lastSchemaOp, contract>>

\* one of the awaits of the outer try rejected with an error
awaitRejected(message) ==
    /\ pc \in {"getSigner", "getAddress", "eth_gasPrice", "eth_sendTransaction",
               "waitForTransaction"}
    /\ catch(message)
    /\ UNCHANGED <<ethereum, localStorage, call, txCount, attestCalls, schemaRan,
                   lastSchemaOp, contract>>

\* export function setSchemaUID(uid: string): void
setSchemaUID(uid) ==
    /\ localStorage' = setItem(localStorage, SCHEMA_UID_KEY, uid)
    /\ lastSchemaOp' = "setSchemaUID"
    /\ UNCHANGED <<ethereum, pc, call, result, txCount, attestCalls, schemaRan, contract>>

Next ==
    \/ \E sender \in Address, photoHash \in PhotoHash, zkCommitment \in Commitment :
           verifyPhoto(sender, photoHash, zkCommitment)
    \/ Mine

Spec == Init /\ [][Next]_vars

\* The contract with its read-only calls.  What a view returns is recorded in
\* lastCall; the hash functions are those that map secret 1 to 0.
InitViews ==
    /\ Init
    /\ \A p \in PhotoHash : keccak256[encodePacked(p, 1)] = 0

NextViews ==
    \/ Next
    \/ ViewCall

SpecViews == InitViews /\ [][NextViews]_vars

\* The browser side alone: the ledger is deployed and nobody calls it.
InitEAS ==
    /\ constructor
    /\ blockTimestamp = 0
    /\ keccak256 = [d \in Packed |-> 0]
    /\ pageLoad

NextEAS ==
    \/ \E photoHash \in PhotoHashString : createSimpleAttestation(photoHash)
    \/ getSignerResolved
    \/ getOrRegisterSchemaUID
    \/ registerResolved
    \/ \E thrown \in BOOLEAN : registrationSettled(thrown)
    \/ gasPriceResolved
    \/ sendTransactionResolved
    \/ \E receipt \in Receipt : waitForTransactionResolved(receipt)
    \/ \E message \in ErrorMessage : awaitRejected(message)
    \/ \E uid \in SchemaUID : setSchemaUID(uid)

SpecEAS == InitEAS /\ [][NextEAS]_vars

TypeOK ==
    /\ attestations \in [PhotoHash -> [verifiedAt : Timestamp,
                                       owner : Address \cup {ZeroAddress},
                                       zkCommitment : Commitment]]
    /\ ownerPhotoCount \in [Address -> 0..MaxCalls]
    /\ photoCount \in 0..MaxCalls
    /\ owner \in Address
    /\ blockTimestamp \in Timestamp

\* the contract's storage as one value
storage ==
    [attestations |-> attestations, ownerPhotoCount |-> ownerPhotoCount,
     owner |-> owner, photoCount |-> photoCount]

\* verifyPhoto as a function on storage: the storage after msg.sender = sender
\* calls verifyPhoto(photoHash, zkCommitment) in a block with block.timestamp = timestamp
verifyPhotoStorage(st, sender, photoHash, zkCommitment, timestamp) ==
    [attestations |-> [st.attestations EXCEPT
                          ![photoHash] = PhotoAttestation(timestamp, sender, zkCommitment)],
     ownerPhotoCount |-> [st.ownerPhotoCount EXCEPT ![sender] = @ + 1],
     owner |-> st.owner,
     photoCount |-> st.photoCount + 1]

\* ================================================================ claims

\* the triple getAttestation returns for the last verifyPhoto on photoHash
lastWriteTriple(photoHash) ==
    <<lastWrite[photoHash].timestamp, lastWrite[photoHash].sender,
      lastWrite[photoHash].zkCommitment>>

\* keccak256 maps no two secrets of photoHash to one commitment
CollisionFree(photoHash) ==
    \A s1, s2 \in Secret :
        computeCommitment(photoHash, s1) = computeCommitment(photoHash, s2) => s1 = s2

\* C1 (as claimed): in the state after verifyPhoto(photoHash, zkCommitment) sent by
\* sender at block.timestamp t, getAttestation(photoHash) = (t, sender, zkCommitment),
\* isVerified(photoHash) is true and getOwnerOf(photoHash) = sender, for every t.
C1_WriteThenRead ==
    lastTx.op = "verifyPhoto" =>
        /\ getAttestation(lastTx.photoHash)
               = <<lastTx.timestamp, lastTx.sender, lastTx.zkCommitment>>
        /\ isVerified(lastTx.photoHash)
        /\ getOwnerOf(lastTx.photoHash) = lastTx.sender

\* C2: the stored record of a photo is exactly the (timestamp, sender, commitment)
\* of the last verifyPhoto on it; and after exactly two calls, both on one photo,
\* by two different senders, each sender's count is 1 and the total is 2.
C2_LastWriterWins ==
    /\ \A p \in PhotoHash :
           writeCount[p] > 0 => getAttestation(p) = lastWriteTriple(p)
    /\ \A p \in PhotoHash : \A A, B \in Address :
           ( /\ A # B
             /\ nCalls = 2 /\ writeCount[p] = 2
             /\ callsBy[A] = 1 /\ callsBy[B] = 1
             /\ lastWrite[p].sender = B )
           => /\ getAttestation(p) = <<lastWrite[p].timestamp, B, lastWrite[p].zkCommitment>>
              /\ getOwnerPhotoCount(A) = 1
              /\ getOwnerPhotoCount(B) = 1
              /\ getPhotoCount = 2

\* C2 witness: two calls, both on one photo, the second by another sender at a
\* later block.
C2_Witness ==
    \E p \in PhotoHash :
        /\ nCalls = 2 /\ writeCount[p] = 2
        /\ callsBy["deployer"] = 1 /\ callsBy["alice"] = 1
        /\ lastWrite[p].sender = "alice"
        /\ lastWrite[p].timestamp = 2
        /\ getOwnerOf(p) = "alice"

\* the commitment the last verifyPhoto on photoHash supplied (0 when there was none)
suppliedCommitment(photoHash) ==
    IF writeCount[photoHash] > 0 THEN lastWrite[photoHash].zkCommitment ELSE 0

\* C3: verifyZkProof(photoHash, secret) is true exactly when the commitment last
\* supplied for photoHash equals computeCommitment(photoHash, secret), whoever owns
\* the record; when that commitment is computeCommitment(photoHash, s) and
\* keccak256 is collision-free on photoHash, it is true for s and for no other secret.
C3_OwnershipProof ==
    \A p \in PhotoHash : \A s \in Secret :
        /\ verifyZkProof(p, s) <=> (suppliedCommitment(p) = computeCommitment(p, s))
        /\ ( /\ writeCount[p] > 0
             /\ lastWrite[p].zkCommitment = computeCommitment(p, s)
             /\ CollisionFree(p) )
           => \A s2 \in Secret : verifyZkProof(p, s2) <=> (s2 = s)

\* C3 witness: alice recorded computeCommitment(p, s) under a collision-free
\* keccak256; the proof holds for s and fails for the other secret.
C3_Witness ==
    \E p \in PhotoHash : \E s, s2 \in Secret :
        /\ writeCount[p] > 0
        /\ getOwnerOf(p) = "alice"
        /\ lastWrite[p].zkCommitment = computeCommitment(p, s)
        /\ CollisionFree(p)
        /\ s2 # s
        /\ verifyZkProof(p, s)
        /\ ~verifyZkProof(p, s2)

\* C4 (as claimed): for a photoHash verifyPhoto was never called on, getAttestation
\* is (0, address(0), 0), isVerified is false, getOwnerOf is address(0) and
\* verifyZkProof is false for every secret.
C4_AbsentKey ==
    \A p \in PhotoHash :
        writeCount[p] = 0 =>
            /\ getAttestation(p) = <<0, ZeroAddress, 0>>
            /\ ~isVerified(p)
            /\ getOwnerOf(p) = ZeroAddress
            /\ \A s \in Secret : ~verifyZkProof(p, s)

\* one verifyPhoto step adds 1 to the sender's count and to the total and leaves
\* every other address's count alone
C5_Step ==
    \A S \in Address, p \in PhotoHash, c \in Commitment :
        verifyPhoto(S, p, c) =>
            /\ ownerPhotoCount'[S] = ownerPhotoCount[S] + 1
            /\ photoCount' = photoCount + 1
            /\ \A a \in Address \ {S} : ownerPhotoCount'[a] = ownerPhotoCount[a]

\* no step decreases a counter
C5_Monotone ==
    /\ photoCount' >= photoCount
    /\ \A a \in Address : ownerPhotoCount'[a] >= ownerPhotoCount[a]

\* C5: every verifyPhoto by S adds exactly 1 to ownerPhotoCount[S] and to
\* photoCount, first write or overwrite; the counters never decrease; photoCount
\* is the number of verifyPhoto calls and ownerPhotoCount[S] the number sent by S.
C5_CounterBookkeeping ==
    /\ [](/\ getPhotoCount = nCalls
          /\ \A a \in Address : getOwnerPhotoCount(a) = callsBy[a])
    /\ [][C5_Step /\ C5_Monotone]_vars

\* C5 witness: three calls, one photo written three times, by both senders.
C5_Witness ==
    \E p \in PhotoHash :
        /\ writeCount[p] = 3
        /\ callsBy["alice"] = 2 /\ callsBy["deployer"] = 1
        /\ getOwnerPhotoCount("alice") = 2
        /\ getPhotoCount = 3

\* C6 (as claimed): isVerified(photoHash) is true iff verifyPhoto was called on
\* photoHash at least once, whatever block.timestamp the calls ran at.
C6_VerifiedIffWritten ==
    \A p \in PhotoHash : isVerified(p) <=> writeCount[p] > 0

\* C7: once isVerified(photoHash) is true it is true in every later state.
C7_AttestedAbsorbing ==
    [][\A p \in PhotoHash : isVerified(p) => isVerified(p)']_vars

\* C7 witness: a verified photo that was written again by another sender.
C7_Witness ==
    \E p \in PhotoHash :
        /\ writeCount[p] >= 2
        /\ callsBy["alice"] >= 1 /\ callsBy["deployer"] >= 1
        /\ writeCount[p] = nCalls
        /\ isVerified(p)

\* C8: while the run's call budget lasts, verifyPhoto is enabled for every sender,
\* photo and commitment, whoever owns the photo, and it returns the verifiedAt it
\* stored.
C8_Permissionless ==
    /\ nCalls < MaxCalls =>
           \A S \in Address, p \in PhotoHash, c \in Commitment :
               ENABLED verifyPhoto(S, p, c)
    /\ lastTx.op = "verifyPhoto" =>
           lastTx.ret = attestations[lastTx.photoHash].verifiedAt

\* C8 witness: the deployer's photo was overwritten by alice, who got the stored
\* timestamp back.
C8_Witness ==
    /\ lastTx.op = "verifyPhoto"
    /\ lastTx.sender = "alice"
    /\ nCalls = 2
    /\ writeCount[lastTx.photoHash] = 2
    /\ callsBy["deployer"] = 1
    /\ lastTx.ret = 1
    /\ getAttestation(lastTx.photoHash) = <<1, "alice", lastTx.zkCommitment>>

\* C9: every step leaves the record of a photo as it is or replaces all of it by
\* the (block.timestamp, sender, commitment) of the one transaction executed in
\* that step; so a stored record is always the triple of one executed call.
C9_AtomicSameKey ==
    /\ [][\A p \in PhotoHash :
            attestations'[p] # attestations[p] =>
                /\ lastTx'.op = "verifyPhoto"
                /\ lastTx'.photoHash = p
                /\ lastTx'.timestamp = blockTimestamp
                /\ attestations'[p] = PhotoAttestation(lastTx'.timestamp, lastTx'.sender,
                                                       lastTx'.zkCommitment)]_vars
    /\ [](\A p \in PhotoHash :
            attestations[p] = IF writeCount[p] = 0 THEN ZeroAttestation
                              ELSE PhotoAttestation(lastWrite[p].timestamp,
                                                    lastWrite[p].sender,
                                                    lastWrite[p].zkCommitment))

\* C9 witness: three calls on one photo by both senders.
C9_Witness ==
    \E p \in PhotoHash :
        /\ writeCount[p] = 3
        /\ callsBy["alice"] >= 1 /\ callsBy["deployer"] >= 1
        /\ lastWrite[p].zkCommitment = 1
        /\ lastWrite[p].timestamp = 2
        /\ getAttestation(p) = <<2, lastWrite[p].sender, 1>>

\* the record, the owner counters or the total changed in this step
C10_Touched ==
    \/ attestations' # attestations
    \/ ownerPhotoCount' # ownerPhotoCount
    \/ photoCount' # photoCount

\* C10: a step that changes the record table, an owner counter or the total is
\* one verifyPhoto whose record, owner-counter increment and total increment are
\* all in the state it leads to; no state shows one without the others.
C10_CountersAtomic ==
    [][C10_Touched =>
          /\ lastTx'.op = "verifyPhoto"
          /\ attestations'[lastTx'.photoHash]
                 = PhotoAttestation(lastTx'.timestamp, lastTx'.sender, lastTx'.zkCommitment)
          /\ ownerPhotoCount'[lastTx'.sender] = ownerPhotoCount[lastTx'.sender] + 1
          /\ photoCount' = photoCount + 1
          /\ callsBy'[lastTx'.sender] = callsBy[lastTx'.sender] + 1]_vars

\* C10 witness: the first verifyPhoto: its record and both increments are there.
C10_Witness ==
    /\ lastTx.op = "verifyPhoto"
    /\ getPhotoCount = 1
    /\ getOwnerPhotoCount(lastTx.sender) = 1
    /\ getAttestation(lastTx.photoHash)
           = <<lastTx.timestamp, lastTx.sender, lastTx.zkCommitment>>

\* a verifyPhoto step on p is verifyPhotoStorage, leaves every other photo's record,
\* and commutes with every call on another photo: that call after this step gives
\* the storage that this call gives after that call
C11_Step ==
    \A S \in Address, p \in PhotoHash, c \in Commitment :
        verifyPhoto(S, p, c) =>
            /\ \A p2 \in PhotoHash \ {p} : attestations'[p2] = attestations[p2]
            /\ storage' = verifyPhotoStorage(storage, S, p, c, blockTimestamp)
            /\ \A S2 \in Address, p2 \in PhotoHash \ {p}, c2 \in Commitment, t2 \in Timestamp :
                   verifyPhotoStorage(storage', S2, p2, c2, t2)
                     = verifyPhotoStorage(verifyPhotoStorage(storage, S2, p2, c2, t2),
                                          S, p, c, blockTimestamp)

\* C11: verifyPhoto on one photo leaves the record of every other photo
\* unchanged, and two calls on different photos, each with its sender and
\* timestamp, lead to the same records, owner counts and total in both orders.
C11_IndependentKeys == [][C11_Step]_vars

\* C11 witness: both photos written, by different senders in different blocks.
C11_Witness ==
    /\ writeCount[1] = 1 /\ writeCount[2] = 1
    /\ getOwnerOf(1) = "alice" /\ getOwnerOf(2) = "deployer"
    /\ attestations[1].verifiedAt # attestations[2].verifiedAt
    /\ getOwnerPhotoCount("alice") = 1 /\ getOwnerPhotoCount("deployer") = 1
    /\ getPhotoCount = 2

C13_VerifiedAtMonotone ==
    [][\A p \in PhotoHash :
          /\ writeCount'[p] # writeCount[p] => attestations'[p].verifiedAt = blockTimestamp
          /\ attestations'[p].verifiedAt >= attestations[p].verifiedAt]_vars

\* C13 witness: a photo written three times, last in a later block than the
\* deployment, with a commitment that differs from the timestamp.
C13_Witness ==
    \E p \in PhotoHash :
        /\ writeCount[p] = 3
        /\ attestations[p].verifiedAt = 2
        /\ attestations[p].zkCommitment = 0

\* C15: photoCount is the sum of ownerPhotoCount; the attested photos are at
\* most photoCount; the photos an address owns are at most its ownerPhotoCount.
C15_CounterRecordConsistency ==
    /\ photoCount = SumOver(ownerPhotoCount, Address)
    /\ Cardinality({p \in PhotoHash : getOwnerOf(p) # ZeroAddress}) <= photoCount
    /\ Cardinality({p \in PhotoHash : isVerified(p)}) <= photoCount
    /\ \A a \in Address :
           Cardinality({p \in PhotoHash : getOwnerOf(p) = a}) <= getOwnerPhotoCount(a)

\* C15 witness: the deployer has a count of 1 and owns nothing, alice owns both.
C15_Witness ==
    /\ getOwnerPhotoCount("deployer") = 1
    /\ getOwnerPhotoCount("alice") = 2
    /\ \A p \in PhotoHash : getOwnerOf(p) = "alice"

\* a verifyPhoto step has the same effect whatever address the contract owner is
C20_Step ==
    \A S \in Address, p \in PhotoHash, c \in Commitment :
        verifyPhoto(S, p, c) =>
            \A o \in Address :
                [storage' EXCEPT !.owner = o]
                  = verifyPhotoStorage([storage EXCEPT !.owner = o], S, p, c, blockTimestamp)

\* C20: no step changes the contract owner, which stays the deployer; verifyPhoto
\* is enabled for senders other than the owner just as for the owner, and its
\* effect on records and counters does not depend on who the owner is.
C20_OwnerInert ==
    /\ [][owner' = owner /\ C20_Step]_vars
    /\ [](/\ owner = "deployer"
          /\ nCalls < MaxCalls =>
                 \A S \in Address \ {owner}, p \in PhotoHash, c \in Commitment :
                     ENABLED verifyPhoto(S, p, c))

\* C20 witness: alice, who is not the contract owner, overwrote the deployer's photo.
C20_Witness ==
    /\ owner = "deployer"
    /\ lastTx.op = "verifyPhoto" /\ lastTx.sender = "alice"
    /\ writeCount[lastTx.photoHash] = 2
    /\ callsBy["deployer"] = 1 /\ callsBy["alice"] = 1
    /\ getOwnerOf(lastTx.photoHash) = "alice"
    /\ getOwnerPhotoCount("deployer") = 1

\* C14: a call of getAttestation, isVerified, verifyZkProof, getOwnerOf,
\* getOwnerPhotoCount, getPhotoCount or computeCommitment changes no record, no
\* owner count, not the total and not the contract owner, for written and
\* unwritten photos alike: the storage changes only in a step that is a verifyPhoto.
C14_ReadsHaveNoEffect ==
    [][(callsBy' = callsBy \/ lastCall'.fn \in ViewFunctions)
          => /\ attestations' = attestations
             /\ ownerPhotoCount' = ownerPhotoCount
             /\ photoCount' = photoCount
             /\ owner' = owner]_vars

\* C14 witness: getAttestation of the unwritten photo 1 returned the zero record
\* after photo 2 was written; photo 1 still has no record.
C14_Witness ==
    /\ lastCall.fn = "getAttestation"
    /\ lastCall.ret = <<0, ZeroAddress, 0>>
    /\ writeCount[1] = 0 /\ writeCount[2] = 1
    /\ attestations[1] = ZeroAttestation
    /\ getOwnerOf(2) = "alice"
    /\ getPhotoCount = 1

\* ---- createSimpleAttestation and the local cache (eas.ts)

\* C16: whenever createSimpleAttestation returns success: true, the receipt of
\* its transaction held an Attested event and the returned attestationId is the
\* UID of that event, never the hash of a transaction without one.
C16_SuccessOnlyForAttested ==
    (result.state = "fulfilled" /\ result.value.success)
        => /\ parseAttestedUID(call.receipt) # <<>>
           /\ result.value.attestationId = parseAttestedUID(call.receipt)

\* the attestation entries of a storage area (everything but the schema key)
cacheOf(ls) == [k \in DOMAIN ls \ {SCHEMA_UID_KEY} |-> ls[k]]

C17_Step ==
    /\ result'.state # "rejected"
    /\ (pc # "idle" /\ pc' = "idle") => result'.state = "fulfilled"
    /\ (attestCalls' # attestCalls /\ ~ethereum)
           => /\ result' = Fulfilled(Failure("MetaMask not found"))
              /\ txCount' = txCount
              /\ localStorage' = localStorage
    /\ (result' # result /\ result'.state = "fulfilled" /\ ~result'.value.success)
           => /\ result'.value.error \in
                      {"MetaMask not found", "Failed to create attestation"}
                          \cup (ErrorMessage \ {""})
              /\ cacheOf(localStorage') = cacheOf(localStorage)
    /\ cacheOf(localStorage') # cacheOf(localStorage)
           => /\ pc = "waitForTransaction"
              /\ call.txHash = TxHash(txCount)
              /\ txCount > 0
              /\ result'.state = "fulfilled"
              /\ result'.value.success

\* C17: createSimpleAttestation never rejects: every call settles with a value.
\* Without a wallet it returns {success: false, error: 'MetaMask not found'}
\* and neither sends a transaction nor touches localStorage.  A step that
\* returns success: false writes no attestation entry, and an attestation
\* entry is written only in the step where the wait for the receipt of the
\* sent transaction returned and the call returns success, so a failing call
\* has written none.
C17_FailsAsValue == [][C17_Step]_vars

\* a call that sent its transaction and then failed: no entry under its hash
C17_Witness ==
    /\ result.state = "fulfilled"
    /\ ~result.value.success
    /\ call.txHash # <<>>
    /\ isNull(getLocalEASAttestation(call.photoHash))

\* the same hash written the other way: without the '0x' prefix, or with it
otherForm(photoHash) ==
    IF startsWith0x(photoHash) THEN replace0x(photoHash) ELSE <<"0", "x">> \o photoHash

C18_Returned ==
    (result.state = "fulfilled" /\ result.value.success)
        => \A h \in {call.photoHash, otherForm(call.photoHash)} :
               /\ ~isNull(getLocalEASAttestation(h))
               /\ getLocalEASAttestation(h).uid = result.value.attestationId
               /\ getLocalEASAttestation(h).txHash = call.txHash
               /\ getLocalEASAttestation(h) = getLocalEASAttestation(call.photoHash)

C18_Step ==
    \A h \in PhotoHashString :
        replace0x(h) # replace0x(call'.photoHash)
            => getLocalEASAttestation(h)' = getLocalEASAttestation(h)

\* C18: once createSimpleAttestation(h) has returned success: true with
\* attestationId u, getLocalEASAttestation(h) is a non-null entry whose uid is u,
\* the same entry with and without the '0x' prefix; it is the entry of the
\* latest successful call for h (an earlier one is overwritten), and no step of
\* a call changes the entry of another hash.
C18_CacheRoundTrip == []C18_Returned /\ [][C18_Step]_vars

\* the third transaction succeeded for a hash passed without prefix, and the
\* entry of the other hash is still there
C18_Witness ==
    /\ result.state = "fulfilled"
    /\ result.value.success
    /\ call.photoHash = <<"a", "b">>
    /\ call.txHash = TxHash(3)
    /\ getLocalEASAttestation(<<"0", "x", "a", "b">>).uid = result.value.attestationId
    /\ ~isNull(getLocalEASAttestation(<<"c", "0">>))

\* C19 as stated: getOrRegisterSchemaUID returns the computed UID; once it has
\* run, getSchemaUID() returns the computed UID; the transaction is sent only
\* after the schema step completed.
C19_ComputedOnceRun ==
    /\ call.schemaUID \in {Undefined, computedUID}
    /\ schemaRan => getSchemaUID = computedUID
    /\ call.txHash # <<>> => (schemaRan /\ call.schemaUID = computedUID)

\* C19: getOrRegisterSchemaUID returns the computed UID whether the registration
\* succeeded or threw; from the moment it runs until setSchemaUID is next called,
\* getSchemaUID() returns the computed UID, whatever setSchemaUID stored
\* before; the transaction is sent only after the schema step completed.
C19_ComputedUntilSet ==
    /\ call.schemaUID \in {Undefined, computedUID}
    /\ pc \in {"eth_gasPrice", "eth_sendTransaction", "waitForTransaction"}
           => call.schemaUID = computedUID
    /\ lastSchemaOp = "getOrRegisterSchemaUID" => getSchemaUID = computedUID
    /\ call.txHash # <<>> => (schemaRan /\ call.schemaUID = computedUID)

\* the transaction went out after the schema step, with the computed UID stored
C19_Witness ==
    /\ call.txHash # <<>>
    /\ pc = "waitForTransaction"
    /\ lastSchemaOp = "getOrRegisterSchemaUID"
    /\ getSchemaUID = computedUID

====
